---------------------------- MODULE Spec2Model ----------------------------
(***************************************************************************)
(* Entropy measures of skmob/measures/individual.py: the real entropy      *)
(* (_true_entropy, a Lempel-Ziv style scan over the stringified sequence   *)
(* of locations), the random entropy and the uncorrelated entropy of one   *)
(* individual.                                                             *)
(*                                                                         *)
(* A coordinate is an integer number of hundredths (100 is 1.0, 205 is     *)
(* 2.05, -100 is -1.0); str() of a float is modelled character by          *)
(* character.  A float result is kept in exact symbolic form               *)
(*      (1/den) * SUM_k terms[k]*log2(k) / log2(over)                      *)
(* together with the IEEE specials nan and -inf.                           *)
(***************************************************************************)
EXTENDS Integers, Sequences, FiniteSets, TLC

\* Longest trajectory (number of records of one individual) that is explored.
MaxLen == 4

\* The (latitude, longitude) pairs the records are drawn from: (1.0, 2.0),
\* (11.0, 2.0), (-1.0, 2.0) and (1.0, 2.05).  The text of the first is a
\* substring of the text of each of the others; the other three are
\* textually unrelated to each other.
Locations == { <<100, 200>>, <<1100, 200>>, <<-100, 200>>, <<100, 205>> }

VARIABLES
    traj,         \* the records of the individual, in temporal order
    est,          \* the estimator that is running or has returned
    pc,           \* position in the running estimator
    sequence,     \* _true_entropy: its argument (tuple of (lat, lng) tuples)
    n,            \* _true_entropy: len(sequence)
    sum_lambda,   \* _true_entropy: running sum of contributions
    i,            \* _true_entropy: loop variable of the for loop
    j,            \* _true_entropy: candidate length
    str_seq,      \* _true_entropy: text of the prefix sequence[:i]
    str_sub_seq,  \* _true_entropy: text of the candidate sequence[i:i+j]
    normalize,    \* _uncorrelated_entropy_individual: its normalize argument
    lambdas,      \* history: the values of j added to sum_lambda, in order
    positions,    \* history: the values of i at which a j was added, in order
    result,       \* outcome of the estimator once pc = "done"
    empty_entropy,\* what the installed scipy returns as entropy of an empty list
    probe,        \* history: an earlier call (estimator, argument) and its result
    table,        \* the TrajDataFrame given to a public measure: whether it has
                  \* a uid column, and its rows (uid, lat, lng) in temporal order
    wrapper,      \* the public measure that is running, with its arguments
    todo,         \* the groups (uid, rows) the function is still to be applied to
    out           \* the DataFrame the public measure builds: its value column's
                  \* name and its rows (uid, value, and as history the records
                  \* the value was computed from), and whether it was returned

\* What the per-individual estimators neither read nor write.
outer == << empty_entropy, probe, table, wrapper, todo, out >>

vars == << traj, est, pc, sequence, n, sum_lambda, i, j, str_seq,
           str_sub_seq, normalize, lambdas, positions, result, outer >>

-----------------------------------------------------------------------------
(* Python sequences and strings *)

\* seq[a:b] for 0 <= a, with Python's clipping of b to len(seq).
Slice(seq, a, b) ==
    LET hi == IF b > Len(seq) THEN Len(seq) ELSE b
    IN  IF a >= hi THEN << >> ELSE SubSeq(seq, a + 1, hi)

\* sub in s, for texts: sub occurs in s as a contiguous run of characters.
Contains(s, sub) ==
    \E k \in 0..(Len(s) - Len(sub)) : SubSeq(s, k + 1, k + Len(sub)) = sub

DigitChar == << "0", "1", "2", "3", "4", "5", "6", "7", "8", "9" >>

RECURSIVE Digits(_)
Digits(m) ==
    IF m < 10 THEN << DigitChar[m + 1] >>
    ELSE Digits(m \div 10) \o << DigitChar[(m % 10) + 1] >>

\* str(x) of a float x = v/100: sign, integer digits, ".", and the shortest
\* fraction that reads back as x (at least one digit).
str(v) ==
    LET a == IF v < 0 THEN -v ELSE v
        f == a % 100
    IN  (IF v < 0 THEN << "-" >> ELSE << >>)
        \o Digits(a \div 100) \o << "." >>
        \o (IF f % 10 = 0 THEN << DigitChar[(f \div 10) + 1] >>
            ELSE << DigitChar[(f \div 10) + 1], DigitChar[(f % 10) + 1] >>)

\* sep.join(parts) for a list of texts.
RECURSIVE join(_, _)
join(sep, parts) ==
    IF parts = << >> THEN << >>
    ELSE IF Len(parts) = 1 THEN parts[1]
    ELSE parts[1] \o sep \o join(sep, Tail(parts))

\* '|'.join(['_'.join(list(map(str, r))) for r in seq])
_stringify(seq) ==
    join(<< "|" >>,
         [k \in 1..Len(seq) |->
             join(<< "_" >>, [c \in 1..Len(seq[k]) |-> str(seq[k][c])])])

-----------------------------------------------------------------------------
(* Floats *)

NaN    == [kind |-> "nan",  den |-> 1, terms |-> << >>, over |-> 2]
NegInf == [kind |-> "-inf", den |-> 1, terms |-> << >>, over |-> 2]

\* The float p/q (q > 0), written as p*log2(2)/q.
Rat(p, q) == [kind |-> "fin", den |-> q, terms |-> << 0, p >>, over |-> 2]

\* The outcome of an operation that raised.
Raised(exc) == [kind |-> exc, den |-> 1, terms |-> << >>, over |-> 2]

Coef(v, k) == IF k \in DOMAIN v.terms THEN v.terms[k] ELSE 0

IsPrime(p) == p > 1 /\ \A d \in 2..(p - 1) : p % d # 0

\* The exponent of p in k.
RECURSIVE Exp(_, _)
Exp(p, k) == IF k % p = 0 THEN 1 + Exp(p, k \div p) ELSE 0

\* SUM_{k <= m} terms[k] * Exp(p, k): the coefficient of log2(p) in the sum.
RECURSIVE PrimeCoef(_, _, _)
PrimeCoef(v, p, m) ==
    IF m < 1 THEN 0 ELSE Coef(v, m) * Exp(p, m) + PrimeCoef(v, p, m - 1)

\* The logarithms of the primes are rationally independent, so the sum is a
\* rational number exactly when no odd prime is left in it.
IsRational(v) ==
    /\ v.kind = "fin"
    /\ v.over = 2
    /\ \A p \in 3..Len(v.terms) : IsPrime(p) => PrimeCoef(v, p, Len(v.terms)) = 0

\* For a rational v, v = RatNum(v) / v.den.
RatNum(v) == PrimeCoef(v, 2, Len(v.terms))

IsZero(v) == IsRational(v) /\ RatNum(v) = 0

\* v = p/q as numbers.
EqualsRat(v, p, q) == IsRational(v) /\ RatNum(v) * q = p * v.den

\* Variant of np_log2: log2(1 + x) where log2(x) is meant.
np_log2_of_successor(x) ==
    [kind |-> "fin", den |-> 1,
     terms |-> [k \in 1..(x + 1) |-> IF k = x + 1 THEN 1 ELSE 0], over |-> 2]

\* np.log2(x) for an integer x >= 0: -inf at 0 (numpy warns, it does not raise).
np_log2(x) ==
    IF x = 0 THEN NegInf
    ELSE [kind |-> "fin", den |-> 1,
          terms |-> [k \in 1..x |-> IF k = x THEN 1 ELSE 0], over |-> 2]

\* a * b where a is an exception, a special or a rational float >= 0.
Mul(a, b) ==
    IF a.kind \notin {"fin", "nan", "-inf"} THEN a
    ELSE IF b.kind \notin {"fin", "nan", "-inf"} THEN b
    ELSE IF a.kind = "nan" \/ b.kind = "nan" THEN NaN
    ELSE IF b.kind = "-inf"
         THEN (IF a.kind = "fin" /\ ~IsZero(a) /\ RatNum(a) > 0 THEN NegInf ELSE NaN)
    ELSE IF a.kind = "-inf"
         THEN (IF ~IsZero(b) THEN NegInf ELSE NaN)
    ELSE [kind |-> "fin", den |-> a.den * b.den,
          terms |-> [k \in DOMAIN b.terms |-> RatNum(a) * b.terms[k]],
          over |-> b.over]

\* 1. / x for a Python float x with an integer value: ZeroDivisionError at 0.
Reciprocal(x) == IF x = 0 THEN Raised("ZeroDivisionError") ELSE Rat(1, x)

-----------------------------------------------------------------------------
(* pandas / numpy / scipy on the records of one individual *)

\* Variant of LatLngValues: a row that repeats the row before it is dropped.
RECURSIVE LatLngValuesDeduplicated(_)
LatLngValuesDeduplicated(t) ==
    IF Len(t) <= 1 THEN [k \in 1..Len(t) |-> << t[k].lat, t[k].lng >>]
    ELSE LET front == LatLngValuesDeduplicated(SubSeq(t, 1, Len(t) - 1))
         IN  IF t[Len(t)].lat = t[Len(t) - 1].lat /\ t[Len(t)].lng = t[Len(t) - 1].lng
             THEN front
             ELSE Append(front, << t[Len(t)].lat, t[Len(t)].lng >>)

\* traj[[constants.LATITUDE, constants.LONGITUDE]].values, row by row.
LatLngValues(t) == [k \in 1..Len(t) |-> << t[k].lat, t[k].lng >>]

\* Variant of GroupKeys: traj.groupby([LATITUDE]), the longitude left out.
GroupKeysByLatitude(t) == { << t[k].lat >> : k \in 1..Len(t) }

\* The keys of traj.groupby([LATITUDE, LONGITUDE]): the distinct pairs.
GroupKeys(t) == { << t[k].lat, t[k].lng >> : k \in 1..Len(t) }

\* Variant of GroupSize: the rows of the group are matched on latitude alone.
GroupSizeByLatitude(t, key) == Cardinality({ k \in 1..Len(t) : t[k].lat = key[1] })

\* len(group) of the group of one key.
GroupSize(t, key) == Cardinality({ k \in 1..Len(t) : << t[k].lat, t[k].lng >> = key })

\* len(np.unique(values, axis=0)): the number of distinct rows.
np_unique_count(rows) == Cardinality({ rows[k] : k \in 1..Len(rows) })

\* scipy.stats.entropy(probs, base=2.0) for probs = [len(group)/total ...],
\* total > 0: SUM -p*log2(p) = (total*log2(total) - SUM c*log2(c)) / total.
stats_entropy(t, total) ==
    [kind |-> "fin", den |-> total,
     terms |-> [k \in 1..total |->
                  (IF k = total THEN total ELSE 0)
                  - k * Cardinality({ key \in GroupKeys(t) : GroupSize(t, key) = k })],
     over |-> 2]

\* entropy /= np.log2(n_vals), for n_vals > 1.
DivideByLog2(v, n_vals) == [v EXCEPT !.over = n_vals]

-----------------------------------------------------------------------------
(* _true_entropy *)

\* sum_lambda = 1. + 2.  (the first and the last element)
BoundaryContribution == 3

\* Variant of InteriorRange: range(1, n - 2), which drops the last interior position.
InteriorRangeShort(len) == 1..(len - 3)

\* range(1, n - 1)
InteriorRange(len) == 1..(len - 2)

\* Variant of Accumulate: sum_lambda = j, which forgets the earlier contributions.
AccumulateOverwrite(s, len) == len

\* Variant of Accumulate: sum_lambda -= j.
AccumulateSubtract(s, len) == s - len

\* sum_lambda += j
Accumulate(s, len) == s + len

\* Variant of ReturnValue: 1. / sum_lambda * np.log2(n), without the factor n.
ReturnValueWithoutLength(s, len) == Mul(Reciprocal(s), np_log2(len))

\* Variant of ReturnValue: the boundary contribution is taken out of the divisor.
ReturnValueInteriorOnly(s, len) ==
    Mul(Mul(Reciprocal(s - 3), Rat(len, 1)), np_log2(len))

\* 1. / sum_lambda * n * np.log2(n)
ReturnValue(s, len) == Mul(Mul(Reciprocal(s), Rat(len, 1)), np_log2(len))

TrajSet == UNION { [1..m -> [lat : {l[1] : l \in Locations}, lng : {l[2] : l \in Locations}]]
                   : m \in 0..MaxLen }

Trajectories == { t \in TrajSet : \A k \in 1..Len(t) : << t[k].lat, t[k].lng >> \in Locations }

\* No estimator has been called: its locals are unbound, nothing is returned.
NoCall ==
    /\ est = "none"
    /\ pc = "idle"
    /\ sequence = << >>
    /\ n = 0
    /\ sum_lambda = 0
    /\ i = 0
    /\ j = 0
    /\ str_seq = << >>
    /\ str_sub_seq = << >>
    /\ normalize = FALSE
    /\ lambdas = << >>
    /\ positions = << >>
    /\ result = NaN

NoProbe == [set |-> FALSE, est |-> "none", normalize |-> FALSE, traj |-> << >>, result |-> NaN]

NoWrapper == [fn |-> "none", normalize |-> FALSE, show_progress |-> FALSE]

NoTable == [uid_column |-> FALSE, rows |-> << >>]

NoOut == [column |-> "", rows |-> << >>, returned |-> FALSE]

\* scipy.stats.entropy of an empty list: 0.0 or nan, depending on the release
\* that is installed; the same release serves every call.
ScipyReleases == { Rat(0, 1), NaN }

\* No public measure is running: an estimator is called on traj directly.
NoMeasure ==
    /\ probe = NoProbe
    /\ table = NoTable
    /\ wrapper = NoWrapper
    /\ todo = << >>
    /\ out = NoOut

Init ==
    /\ traj \in Trajectories
    /\ empty_entropy \in ScipyReleases
    /\ NoCall
    /\ NoMeasure

\* Variant of TrueEntropyEnter: sum_lambda is a running total that outlives
\* the call (a module-level accumulator) and is topped up instead of set.
TrueEntropyEnterCarryingSum ==
    /\ pc = "idle"
    /\ est' = "real"
    /\ sequence' = LatLngValues(traj)
    /\ n' = Len(LatLngValues(traj))
    /\ sum_lambda' = sum_lambda + BoundaryContribution
    /\ i' = 1
    /\ pc' = "for"
    /\ UNCHANGED << outer, traj, j, str_seq, str_sub_seq, normalize, lambdas, positions, result >>

\* _real_entropy_individual builds the tuple of (lat, lng) tuples and calls
\* _true_entropy, which reads n and sets sum_lambda; i is the next value the
\* for loop takes from range(1, n - 1).
TrueEntropyEnter ==
    /\ pc = "idle"
    /\ est' = "real"
    /\ sequence' = LatLngValues(traj)
    /\ n' = Len(LatLngValues(traj))
    /\ sum_lambda' = BoundaryContribution
    /\ i' = 1
    /\ pc' = "for"
    /\ UNCHANGED << outer, traj, j, str_seq, str_sub_seq, normalize, lambdas, positions, result >>

\* Variant of TrueEntropyFor: str_seq is the text of the whole sequence
\* (sequence in the place of sequence[:i]).
TrueEntropyForWholeSequence ==
    /\ pc = "for"
    /\ i \in InteriorRange(n)
    /\ str_seq' = _stringify(sequence)
    /\ j' = 1
    /\ str_sub_seq' = _stringify(Slice(sequence, i, i + 1))
    /\ pc' = "while"
    /\ UNCHANGED << outer, traj, est, sequence, n, sum_lambda, i, normalize, lambdas, positions, result >>

\* for i in range(1, n - 1): str_seq, j = 1, str_sub_seq
TrueEntropyFor ==
    /\ pc = "for"
    /\ i \in InteriorRange(n)
    /\ str_seq' = _stringify(Slice(sequence, 0, i))
    /\ j' = 1
    /\ str_sub_seq' = _stringify(Slice(sequence, i, i + 1))
    /\ pc' = "while"
    /\ UNCHANGED << outer, traj, est, sequence, n, sum_lambda, i, normalize, lambdas, positions, result >>

\* Variant of TrueEntropyWhileBody: the end-of-sequence test is
\* i + j == n + 1, one candidate too late.
TrueEntropyWhileBodyLateBreak ==
    /\ pc = "while"
    /\ Contains(str_seq, str_sub_seq)
    /\ str_sub_seq' = _stringify(Slice(sequence, i, i + j + 1))
    /\ IF i + j + 1 = n + 1
       THEN j' = j + 2 /\ pc' = "add"
       ELSE j' = j + 1 /\ pc' = "while"
    /\ UNCHANGED << outer, traj, est, sequence, n, sum_lambda, i, str_seq, normalize, lambdas, positions, result >>

\* One pass of the body of  while str_sub_seq in str_seq.
TrueEntropyWhileBody ==
    /\ pc = "while"
    /\ Contains(str_seq, str_sub_seq)
    /\ str_sub_seq' = _stringify(Slice(sequence, i, i + j + 1))
    /\ IF i + j + 1 = n
       THEN j' = j + 2 /\ pc' = "add"      \* EOF character: j += 1; break
       ELSE j' = j + 1 /\ pc' = "while"
    /\ UNCHANGED << outer, traj, est, sequence, n, sum_lambda, i, str_seq, normalize, lambdas, positions, result >>

\* The while condition is false.
TrueEntropyWhileExit ==
    /\ pc = "while"
    /\ ~Contains(str_seq, str_sub_seq)
    /\ pc' = "add"
    /\ UNCHANGED << outer, traj, est, sequence, n, sum_lambda, i, j, str_seq, str_sub_seq, normalize, lambdas, positions, result >>

\* Variant of TrueEntropyAdd: the loop is a while loop whose i += 1 is
\* missing, so the same position is scanned again.
TrueEntropyAddSamePosition ==
    /\ pc = "add"
    /\ sum_lambda' = Accumulate(sum_lambda, j)
    /\ lambdas' = Append(lambdas, j)
    /\ positions' = Append(positions, i)
    /\ i' = i
    /\ pc' = "for"
    /\ UNCHANGED << outer, traj, est, sequence, n, j, str_seq, str_sub_seq, normalize, result >>

\* sum_lambda += j, and the for loop goes on to its next value.
TrueEntropyAdd ==
    /\ pc = "add"
    /\ sum_lambda' = Accumulate(sum_lambda, j)
    /\ lambdas' = Append(lambdas, j)
    /\ positions' = Append(positions, i)
    /\ i' = i + 1
    /\ pc' = "for"
    /\ UNCHANGED << outer, traj, est, sequence, n, j, str_seq, str_sub_seq, normalize, result >>

\* The range is exhausted: return 1. / sum_lambda * n * np.log2(n)
TrueEntropyReturn ==
    /\ pc = "for"
    /\ i \notin InteriorRange(n)
    /\ result' = ReturnValue(sum_lambda, n)
    /\ pc' = "done"
    /\ UNCHANGED << outer, traj, est, sequence, n, sum_lambda, i, j, str_seq, str_sub_seq, normalize, lambdas, positions >>

-----------------------------------------------------------------------------
(* _random_entropy_individual and _uncorrelated_entropy_individual *)

RandomEntropyIndividual ==
    /\ pc = "idle"
    /\ est' = "random"
    /\ result' = np_log2(Cardinality(GroupKeys(traj)))
    /\ pc' = "done"
    /\ UNCHANGED << outer, traj, sequence, n, sum_lambda, i, j, str_seq, str_sub_seq, normalize, lambdas, positions >>

\* The entropy before normalization.  scipy's entropy of an empty list is 0.0
\* or nan, depending on the scipy release; it does not raise.
UncorrelatedEntropies(t) ==
    IF Len(t) = 0 THEN { empty_entropy } ELSE { stats_entropy(t, Len(t)) }

\* Variant of Normalized: entropy /= np.log2(n_vals) without the n_vals > 1 test.
NormalizedWithoutGuard(entropy, t) ==
    DivideByLog2(entropy, np_unique_count(LatLngValues(t)))

\* Variant of Normalized: the divisor is log2 of the number of records.
NormalizedByLength(entropy, t) ==
    LET n_vals == np_unique_count(LatLngValues(t))
    IN  IF n_vals > 1 THEN DivideByLog2(entropy, Len(t)) ELSE Rat(0, 1)

\* if normalize: ... entropy /= np.log2(n_vals) if n_vals > 1 else entropy = 0.0
Normalized(entropy, t) ==
    LET n_vals == np_unique_count(LatLngValues(t))
    IN  IF n_vals > 1 THEN DivideByLog2(entropy, n_vals) ELSE Rat(0, 1)

UncorrelatedEntropyIndividual ==
    /\ pc = "idle"
    /\ est' = "uncorrelated"
    /\ normalize' \in BOOLEAN
    /\ \E entropy \in UncorrelatedEntropies(traj) :
          result' = IF normalize' THEN Normalized(entropy, traj) ELSE entropy
    /\ pc' = "done"
    /\ UNCHANGED << outer, traj, sequence, n, sum_lambda, i, j, str_seq, str_sub_seq, lambdas, positions >>

\* The steps of a call of _true_entropy that is under way.
TrueEntropyStep ==
    \/ TrueEntropyFor
    \/ TrueEntropyWhileBody
    \/ TrueEntropyWhileExit
    \/ TrueEntropyAdd
    \/ TrueEntropyReturn

Next ==
    \/ TrueEntropyEnter
    \/ TrueEntropyFor
    \/ TrueEntropyWhileBody
    \/ TrueEntropyWhileExit
    \/ TrueEntropyAdd
    \/ TrueEntropyReturn
    \/ RandomEntropyIndividual
    \/ UncorrelatedEntropyIndividual

Spec == Init /\ [][Next]_vars

-----------------------------------------------------------------------------
(* One estimator call after another *)

\* The locations of the repeated calls: (1.0, 2.0) and (11.0, 2.0).
CallLocations == { << 100, 200 >>, << 1100, 200 >> }

CallTrajectories ==
    UNION { [1..m -> { [lat |-> l[1], lng |-> l[2]] : l \in CallLocations }]
            : m \in 0..(MaxLen - 1) }

\* The call that has returned, as the history keeps it.
ThisCall == [set |-> TRUE, est |-> est, normalize |-> normalize, traj |-> traj, result |-> result]

\* The caller goes on after a return and calls again, on any sequence.  The
\* frame of the finished call is gone: its locals are unbound again, only
\* the last value of sum_lambda is left where it was, for the next
\* _true_entropy to overwrite.  The history may keep the finished call.
NextCall ==
    /\ pc = "done"
    /\ wrapper = NoWrapper
    /\ traj' \in CallTrajectories
    /\ probe' \in (IF probe.set THEN { probe } ELSE { probe, ThisCall })
    /\ est' = "none"
    /\ pc' = "idle"
    /\ sequence' = << >>
    /\ n' = 0
    /\ i' = 0
    /\ j' = 0
    /\ str_seq' = << >>
    /\ str_sub_seq' = << >>
    /\ normalize' = FALSE
    /\ lambdas' = << >>
    /\ positions' = << >>
    /\ result' = NaN
    /\ UNCHANGED << sum_lambda, empty_entropy, table, wrapper, todo, out >>

CallsInit ==
    /\ traj \in CallTrajectories
    /\ empty_entropy \in ScipyReleases
    /\ NoCall
    /\ NoMeasure

CallsNext ==
    \/ Next
    \/ NextCall

CallsSpec == CallsInit /\ [][CallsNext]_vars

-----------------------------------------------------------------------------
(* The two sequences of length 6: alternating and all distinct *)

\* Six locations: those of Locations, (3.0, 4.0) and (5.0, 6.0).
ScenarioLocations == Locations \cup { << 300, 400 >>, << 500, 600 >> }

Record(l) == [lat |-> l[1], lng |-> l[2]]

\* [A, B, A, B, A, B] for two different locations A and B.
AlternatingTrajectories ==
    { << Record(a), Record(b), Record(a), Record(b), Record(a), Record(b) >> :
        a \in ScenarioLocations, b \in ScenarioLocations } \
    { << Record(a), Record(a), Record(a), Record(a), Record(a), Record(a) >> :
        a \in ScenarioLocations }

\* [A, B, C, D, E, F]: the six locations, each once, in any order.
DistinctTrajectories ==
    { t \in [1..Cardinality(ScenarioLocations) -> { Record(l) : l \in ScenarioLocations }] :
        \A k1, k2 \in DOMAIN t : t[k1] = t[k2] => k1 = k2 }

ScenarioInit ==
    /\ traj \in AlternatingTrajectories \cup DistinctTrajectories
    /\ empty_entropy \in ScipyReleases
    /\ NoCall
    /\ NoMeasure

ScenarioSpec == ScenarioInit /\ [][Next]_vars

-----------------------------------------------------------------------------
(* random_entropy, uncorrelated_entropy, real_entropy on a TrajDataFrame *)

\* Most rows of a TrajDataFrame that are explored.
MaxRows == 3

\* The user identifiers of the rows.
Uids == { 1, 2 }

\* The locations of the rows: (1.0, 2.0), (11.0, 2.0) and (1.0, 2.05).
TableLocations == { << 100, 200 >>, << 1100, 200 >>, << 100, 205 >> }

\* The TrajDataFrames with a uid column, and those without (uid 0 stands for
\* the missing column).
Tables ==
    { [uid_column |-> TRUE, rows |-> r] :
        r \in UNION { [1..m -> { [uid |-> u, lat |-> l[1], lng |-> l[2]] :
                                   u \in Uids, l \in TableLocations }] : m \in 0..MaxRows } }
    \cup
    { [uid_column |-> FALSE, rows |-> r] :
        r \in UNION { [1..m -> { [uid |-> 0, lat |-> l[1], lng |-> l[2]] :
                                   l \in TableLocations }] : m \in 0..MaxRows } }

\* The keys of a groupby in the order it yields them: ascending.
RECURSIVE GroupOrder(_)
GroupOrder(keys) ==
    IF keys = {} THEN << >>
    ELSE LET u == CHOOSE x \in keys : \A y \in keys : x <= y
         IN  << u >> \o GroupOrder(keys \ {u})

\* The (lat, lng) records of some rows.
Records(rows) == [k \in 1..Len(rows) |-> [lat |-> rows[k].lat, lng |-> rows[k].lng]]

\* Variant of GroupRows: every group is handed the whole TrajDataFrame.
GroupRowsUnfiltered(rows, u) == rows

\* The rows of the group of uid u, in the order of the TrajDataFrame.
GroupRows(rows, u) ==
    LET Keep(r) == r.uid = u IN SelectSeq(rows, Keep)

\* traj.groupby(constants.UID): one group per uid that occurs.
Groups(t) ==
    LET order == GroupOrder({ t.rows[k].uid : k \in 1..Len(t.rows) })
    IN  [g \in 1..Len(order) |-> [uid |-> order[g], rows |-> GroupRows(t.rows, order[g])]]

\* What the function is applied to: the groups by uid, or, with no uid
\* column, the whole TrajDataFrame once.
Applications(t) ==
    IF t.uid_column THEN Groups(t) ELSE << [uid |-> 0, rows |-> t.rows] >>

\* sys._getframe().f_code.co_name, with 'norm_%s' in uncorrelated_entropy
\* when normalize is set.
ColumnName(fn, norm) ==
    IF fn = "uncorrelated_entropy" /\ norm THEN "norm_uncorrelated_entropy" ELSE fn

\* The records the per-individual function is called on next.
NextArgument(groups) == IF groups = << >> THEN << >> ELSE Records(Head(groups).rows)

\* A public measure is called on table.  normalize is an argument of
\* uncorrelated_entropy only.
MeasureCall ==
    /\ pc = "idle"
    /\ wrapper = NoWrapper
    /\ ~out.returned
    /\ \E fn \in { "random_entropy", "uncorrelated_entropy", "real_entropy" },
          norm \in BOOLEAN, progress \in BOOLEAN :
          /\ (norm => fn = "uncorrelated_entropy")
          /\ wrapper' = [fn |-> fn, normalize |-> norm, show_progress |-> progress]
          /\ out' = [column |-> ColumnName(fn, norm), rows |-> << >>, returned |-> FALSE]
    /\ todo' = Applications(table)
    /\ traj' = NextArgument(Applications(table))
    /\ UNCHANGED << est, pc, sequence, n, sum_lambda, i, j, str_seq, str_sub_seq,
                    normalize, lambdas, positions, result, empty_entropy, probe, table >>

\* The normalize argument _uncorrelated_entropy_individual is called with:
\* normalize=normalize in the groupby branches, none (its default, False)
\* when there is no uid column.
PassedNormalize == IF table.uid_column THEN wrapper.normalize ELSE FALSE

\* The per-individual function has returned: its value becomes the row of
\* the group, and the function is applied to the next group.  As after any
\* call, the locals are unbound again and sum_lambda is left as it was.
GroupCollect ==
    /\ pc = "done"
    /\ wrapper # NoWrapper
    /\ todo # << >>
    /\ out' = [out EXCEPT !.rows = Append(@, [uid |-> Head(todo).uid, value |-> result,
                                                 records |-> traj])]
    /\ todo' = Tail(todo)
    /\ traj' = NextArgument(Tail(todo))
    /\ est' = "none"
    /\ pc' = "idle"
    /\ sequence' = << >>
    /\ n' = 0
    /\ i' = 0
    /\ j' = 0
    /\ str_seq' = << >>
    /\ str_sub_seq' = << >>
    /\ normalize' = FALSE
    /\ lambdas' = << >>
    /\ positions' = << >>
    /\ result' = NaN
    /\ UNCHANGED << sum_lambda, empty_entropy, probe, table, wrapper >>

\* Every group has its row: the DataFrame is returned.
MeasureReturn ==
    /\ pc = "idle"
    /\ wrapper # NoWrapper
    /\ todo = << >>
    /\ ~out.returned
    /\ out' = [out EXCEPT !.returned = TRUE]
    /\ UNCHANGED << traj, est, pc, sequence, n, sum_lambda, i, j, str_seq, str_sub_seq,
                    normalize, lambdas, positions, result, empty_entropy, probe, table,
                    wrapper, todo >>

TableInit ==
    /\ table \in Tables
    /\ traj = << >>
    /\ empty_entropy \in ScipyReleases
    /\ NoCall
    /\ probe = NoProbe
    /\ wrapper = NoWrapper
    /\ todo = << >>
    /\ out = NoOut

TableNext ==
    \/ MeasureCall
    \/ (wrapper.fn = "real_entropy" /\ todo # << >> /\ TrueEntropyEnter)
    \/ (wrapper.fn = "real_entropy" /\ TrueEntropyStep)
    \/ (wrapper.fn = "random_entropy" /\ todo # << >> /\ RandomEntropyIndividual)
    \/ (/\ wrapper.fn = "uncorrelated_entropy" /\ todo # << >>
        /\ UncorrelatedEntropyIndividual
        /\ normalize' = PassedNormalize)
    \/ GroupCollect
    \/ MeasureReturn

TableSpec == TableInit /\ [][TableNext]_vars

-----------------------------------------------------------------------------
(* The records of an individual with their datetime column *)

\* The values of the datetime column.
Datetimes == { 1, 2 }

\* The records over CallLocations with a datetime, in any row order.
TimedRecords ==
    { [lat |-> l[1], lng |-> l[2], datetime |-> d] : l \in CallLocations, d \in Datetimes }

TimedTrajectories == UNION { [1..m -> TimedRecords] : m \in 0..(MaxLen - 1) }

\* The rows of t with their datetime column overwritten, nothing reordered.
Retimings(t) ==
    { [k \in 1..Len(t) |-> [t[k] EXCEPT !.datetime = d[k]]] : d \in [1..Len(t) -> Datetimes] }

\* The caller goes on after a return, rewrites the datetime column of the
\* same TrajDataFrame and calls again.
RetimedCall ==
    /\ pc = "done"
    /\ wrapper = NoWrapper
    /\ traj' \in Retimings(traj)
    /\ probe' \in (IF probe.set THEN { probe } ELSE { probe, ThisCall })
    /\ est' = "none"
    /\ pc' = "idle"
    /\ sequence' = << >>
    /\ n' = 0
    /\ i' = 0
    /\ j' = 0
    /\ str_seq' = << >>
    /\ str_sub_seq' = << >>
    /\ normalize' = FALSE
    /\ lambdas' = << >>
    /\ positions' = << >>
    /\ result' = NaN
    /\ UNCHANGED << sum_lambda, empty_entropy, table, wrapper, todo, out >>

RecordsInit ==
    /\ traj \in TimedTrajectories
    /\ empty_entropy \in ScipyReleases
    /\ NoCall
    /\ NoMeasure

RecordsNext ==
    \/ Next
    \/ RetimedCall

RecordsSpec == RecordsInit /\ [][RecordsNext]_vars

-----------------------------------------------------------------------------
(* distance_straight_line, individual_mobility_network, location_frequency *)

\* The TrajDataFrames with a datetime column, rows in any order, with a uid
\* column and without (uid 0 stands for the missing column).
TimedTables ==
    { [uid_column |-> TRUE, rows |-> r] :
        r \in UNION { [1..m -> { [uid |-> u, datetime |-> d, lat |-> l[1], lng |-> l[2]] :
                                   u \in Uids, d \in Datetimes, l \in CallLocations }]
                      : m \in 0..MaxRows } }
    \cup
    { [uid_column |-> FALSE, rows |-> r] :
        r \in UNION { [1..m -> { [uid |-> 0, datetime |-> d, lat |-> l[1], lng |-> l[2]] :
                                   d \in Datetimes, l \in CallLocations }]
                      : m \in 0..MaxRows } }

\* traj.sort_values(by=constants.DATETIME): the rows in ascending datetime.
\* The default sort (quicksort) is not stable: rows of equal datetime come
\* out in any order.
SortedByDatetime(rows) ==
    LET len == Len(rows)
        orders == { q \in [1..len -> 1..len] :
                      /\ \A a, b \in 1..len : a # b => q[a] # q[b]
                      /\ \A k \in 1..(len - 1) : rows[q[k]].datetime <= rows[q[k + 1]].datetime }
    IN  { [k \in 1..len |-> rows[q[k]]] : q \in orders }

\* The distance of two points, kept as the pair of its end points: the
\* distance is symmetric, and that of a point to itself is 0 (no end points).
getDistanceByHaversine(loc1, loc2) == IF loc1 = loc2 THEN {} ELSE { loc1, loc2 }

\* _jump_lengths_individual, sorted being what sort_values gave: [] for one
\* point, else the distance of every row of lats_lngs to the row before it.
_jump_lengths_individual(t, sorted) ==
    IF Len(t) = 1 THEN << >>
    ELSE LET lats_lngs == LatLngValues(sorted)
         IN  [k \in 1..(Len(lats_lngs) - 1) |->
                 getDistanceByHaversine(lats_lngs[k + 1], lats_lngs[k])]

\* The float 0.0 as a distance.
ZeroKm == [kind |-> "fin", km |-> [d \in {} |-> 0]]

\* sum(jumps): how many times each non-zero distance is added up.
SumKm(jumps) ==
    [kind |-> "fin",
     km |-> [d \in { jumps[k] : k \in DOMAIN jumps } \ { {} } |->
                Cardinality({ k \in DOMAIN jumps : jumps[k] = d })]]

\* if len(jumps) > 0: return sum(jumps); return 0.0
_distance_straight_line_individual(t, sorted) ==
    LET jumps == _jump_lengths_individual(t, sorted)
    IN  IF Len(jumps) > 0 THEN SumKm(jumps) ELSE ZeroKm

\* loc2loc2weight[prev][current] += 1 on the nested defaultdicts, kept as the
\* list of (origin, dest, weight) in the order the two loops over .items()
\* yield them: origins, and under an origin its destinations, in the order
\* they were first inserted.
AddTrip(edges, prev, current) ==
    LET same == { e \in DOMAIN edges : edges[e].origin = prev /\ edges[e].dest = current }
        from == { e \in DOMAIN edges : edges[e].origin = prev }
        trip == [origin |-> prev, dest |-> current, n_trips |-> 1]
    IN  IF same # {}
        THEN [e \in DOMAIN edges |->
                 IF e \in same THEN [edges[e] EXCEPT !.n_trips = @ + 1] ELSE edges[e]]
        ELSE IF from # {}
        THEN LET last == CHOOSE e \in from : \A f \in from : f <= e
             IN  SubSeq(edges, 1, last) \o << trip >> \o SubSeq(edges, last + 1, Len(edges))
        ELSE Append(edges, trip)

\* The loop  for lat, lng in lats_lngs[1:]  once it has passed row number upto.
RECURSIVE Network(_, _, _)
Network(lats_lngs, upto, self_loops) ==
    IF upto < 2 THEN << >>
    ELSE LET before == Network(lats_lngs, upto - 1, self_loops)
             prev == lats_lngs[upto - 1]
             current == lats_lngs[upto]
         IN  IF prev # current THEN AddTrip(before, prev, current)
             ELSE IF self_loops THEN AddTrip(before, prev, current)
             ELSE before

\* _individual_mobility_network_individual, sorted being what sort_values gave.
_individual_mobility_network_individual(sorted, self_loops) ==
    Network(LatLngValues(sorted), Len(sorted), self_loops)

\* freqs.sum()
RECURSIVE FreqsSum(_, _)
FreqsSum(t, keys) ==
    IF keys = {} THEN 0
    ELSE LET key == CHOOSE x \in keys : TRUE
         IN  GroupSize(t, key) + FreqsSum(t, keys \ {key})

\* _location_frequency_individual: the count of rows of every location,
\* sort_values(ascending=False) (equal counts in any order), divided by
\* freqs.sum() if normalize.  A value is the fraction num/den.
_location_frequency_individual(t, norm) ==
    LET keys == GroupKeys(t)
        orders == { o \in [1..Cardinality(keys) -> keys] :
                      /\ \A a, b \in DOMAIN o : a # b => o[a] # o[b]
                      /\ \A k \in 1..(Cardinality(keys) - 1) :
                            GroupSize(t, o[k]) >= GroupSize(t, o[k + 1]) }
    IN  { [k \in DOMAIN o |->
             [lat |-> o[k][1], lng |-> o[k][2],
              value |-> [num |-> GroupSize(t, o[k]),
                         den |-> IF norm THEN FreqsSum(t, keys) ELSE 1]]] : o \in orders }

\* len(traj[constants.UID].unique())
n_users(t) == Cardinality({ t.rows[k].uid : k \in 1..Len(t.rows) })

\* location_frequency applies the function to the whole TrajDataFrame when
\* it has no uid column or just one user, else to the groups by uid.
FrequencyApplications(t) ==
    IF ~t.uid_column \/ n_users(t) = 1
    THEN << [uid |-> 0, rows |-> t.rows] >>
    ELSE Groups(t)

\* One of the three measures is called on table.  self_loops is an argument
\* of individual_mobility_network, normalize of location_frequency (which is
\* called with as_ranks=False).
TimedMeasureCall ==
    /\ pc = "idle"
    /\ wrapper = NoWrapper
    /\ ~out.returned
    /\ \E fn \in { "distance_straight_line", "individual_mobility_network",
                   "location_frequency" },
          norm \in BOOLEAN, loops \in BOOLEAN, progress \in BOOLEAN :
          /\ (norm => fn = "location_frequency")
          /\ (loops => fn = "individual_mobility_network")
          /\ wrapper' = [fn |-> fn, normalize |-> norm, self_loops |-> loops,
                         show_progress |-> progress]
          /\ todo' = IF fn = "location_frequency"
                     THEN FrequencyApplications(table) ELSE Applications(table)
          /\ out' = [column |->
                        CASE fn = "individual_mobility_network" -> "n_trips"
                          [] fn = "distance_straight_line" -> fn
                          [] fn = "location_frequency" ->
                                IF ~table.uid_column \/ n_users(table) = 1
                                THEN "datetime" ELSE fn,
                     rows |-> << >>, returned |-> FALSE]
    /\ UNCHANGED << traj, est, pc, sequence, n, sum_lambda, i, j, str_seq, str_sub_seq,
                    normalize, lambdas, positions, result, empty_entropy, probe, table >>

\* The rows an application adds to the frame carry the uid of their group.
OfGroup(rows, u) == [k \in DOMAIN rows |-> [uid |-> u] @@ rows[k]]

\* _distance_straight_line_individual is applied to the next group.
DistanceStraightLineIndividual ==
    /\ wrapper.fn = "distance_straight_line"
    /\ todo # << >>
    /\ \E sorted \in SortedByDatetime(Head(todo).rows) :
          out' = [out EXCEPT !.rows = Append(@,
                     [uid |-> Head(todo).uid,
                      value |-> _distance_straight_line_individual(Head(todo).rows, sorted)])]
    /\ todo' = Tail(todo)
    /\ UNCHANGED << traj, est, pc, sequence, n, sum_lambda, i, j, str_seq, str_sub_seq,
                    normalize, lambdas, positions, result, empty_entropy, probe, table,
                    wrapper >>

\* The self_loops argument _individual_mobility_network_individual is called
\* with: self_loops=self_loops in the groupby branches, none (its default,
\* False) when there is no uid column.
PassedSelfLoops == IF table.uid_column THEN wrapper.self_loops ELSE FALSE

\* _individual_mobility_network_individual is applied to the next group.
IndividualMobilityNetworkIndividual ==
    /\ wrapper.fn = "individual_mobility_network"
    /\ todo # << >>
    /\ \E sorted \in SortedByDatetime(Head(todo).rows) :
          out' = [out EXCEPT !.rows = @ \o OfGroup(
                     _individual_mobility_network_individual(sorted, PassedSelfLoops),
                     Head(todo).uid)]
    /\ todo' = Tail(todo)
    /\ UNCHANGED << traj, est, pc, sequence, n, sum_lambda, i, j, str_seq, str_sub_seq,
                    normalize, lambdas, positions, result, empty_entropy, probe, table,
                    wrapper >>

\* The normalize argument _location_frequency_individual is called with:
\* normalize=normalize in the groupby branches, none (its default, True)
\* when there is no uid column or just one user.
PassedFrequencyNormalize ==
    IF ~table.uid_column \/ n_users(table) = 1 THEN TRUE ELSE wrapper.normalize

\* _location_frequency_individual is applied to the next group.
LocationFrequencyIndividual ==
    /\ wrapper.fn = "location_frequency"
    /\ todo # << >>
    /\ \E freqs \in _location_frequency_individual(Head(todo).rows, PassedFrequencyNormalize) :
          out' = [out EXCEPT !.rows = @ \o OfGroup(freqs, Head(todo).uid)]
    /\ todo' = Tail(todo)
    /\ UNCHANGED << traj, est, pc, sequence, n, sum_lambda, i, j, str_seq, str_sub_seq,
                    normalize, lambdas, positions, result, empty_entropy, probe, table,
                    wrapper >>

TimedInit ==
    /\ table \in TimedTables
    /\ traj = << >>
    /\ empty_entropy \in ScipyReleases
    /\ NoCall
    /\ probe = NoProbe
    /\ wrapper = NoWrapper
    /\ todo = << >>
    /\ out = NoOut

TimedNext ==
    \/ TimedMeasureCall
    \/ DistanceStraightLineIndividual
    \/ IndividualMobilityNetworkIndividual
    \/ LocationFrequencyIndividual
    \/ MeasureReturn

TimedSpec == TimedInit /\ [][TimedNext]_vars

-----------------------------------------------------------------------------
(* Properties *)

RECURSIVE SumSeq(_)
SumSeq(q) == IF q = << >> THEN 0 ELSE Head(q) + SumSeq(Tail(q))

\* cand occurs in prefix as a contiguous run of equal symbols.
OccursIn(prefix, cand) ==
    \E k \in 0..(Len(prefix) - Len(cand)) : SubSeq(prefix, k + 1, k + Len(cand)) = cand

\* The lengths m <= len(seq) - pos whose candidate seq[pos:pos+m] is not in seq[0:pos].
UnseenLengths(seq, pos) ==
    { m \in 1..(Len(seq) - pos) :
        ~OccursIn(Slice(seq, 0, pos), Slice(seq, pos, pos + m)) }

\* The match length of position pos as the data model defines it.
ShortestUnseen(seq, pos) ==
    IF UnseenLengths(seq, pos) = {} THEN Len(seq) - pos + 1
    ELSE CHOOSE m \in UnseenLengths(seq, pos) : \A m2 \in UnseenLengths(seq, pos) : m <= m2

\* A finite float that is >= 0: a positive divisor and no negative coefficient.
IsNonNegativeFinite(v) ==
    /\ v.kind = "fin"
    /\ v.den > 0
    /\ v.over >= 2
    /\ \A k \in DOMAIN v.terms : v.terms[k] >= 0

\* C1: every match length that _true_entropy adds for an interior position i
\* is the minimal j >= 1 such that sequence[i:i+j] is not a contiguous
\* sub-sequence of sequence[0:i], and n-i+1 only when there is no such j <= n-i.
C1_MatchLengthIsShortestUnseen ==
    est = "real" =>
        \A k \in 1..Len(lambdas) : lambdas[k] = ShortestUnseen(sequence, positions[k])

\* C2: whenever the scan tests its while condition, the textual containment
\* test is true exactly when the candidate sequence[i:i+j] occurs as a
\* contiguous run of equal symbols inside sequence[0:i].
C2_ContainmentIsSymbolwise ==
    pc = "while" =>
        (Contains(str_seq, str_sub_seq)
            <=> OccursIn(Slice(sequence, 0, i), Slice(sequence, i, i + j)))

\* C3: an estimator that was given an empty sequence ends with an explicit
\* empty-input error, never with a value.
C3_EmptyInputRejected ==
    (pc = "done" /\ Len(traj) = 0) => result.kind = "EmptyInputError"

\* C4: throughout the scan the sum of contributions is 3 plus the sum of the
\* match lengths added so far, one per interior position 1, 2, ... in turn;
\* when _true_entropy returns, every interior position 1..n-2 has been
\* counted once and the value is n*log2(n) divided by that sum.
C4_SumOfContributions ==
    est = "real" =>
        /\ sum_lambda = 3 + SumSeq(lambdas)
        /\ Len(positions) = Len(lambdas)
        /\ \A k \in 1..Len(positions) : positions[k] = k
        /\ pc = "done" =>
            /\ \A k \in 1..(n - 2) : k \in DOMAIN positions
            /\ n >= 1 =>
                /\ result.kind = "fin"
                /\ result.over = 2
                /\ result.den = 3 + SumSeq(lambdas)
                /\ DOMAIN result.terms = 1..n
                /\ \A k \in 1..n : result.terms[k] = IF k = n THEN n ELSE 0

C4_Witness ==
    /\ pc = "done" /\ est = "real"
    /\ n = 4
    /\ lambdas = << 2, 3 >>

\* C5: the scan produces exactly max(n-2, 0) match lengths, one per interior
\* position in increasing position order; none for n = 1 and n = 2.
C5_OnePerInteriorPosition ==
    (pc = "done" /\ est = "real") =>
        /\ Len(lambdas) = (IF n >= 2 THEN n - 2 ELSE 0)
        /\ positions = [k \in 1..(IF n >= 2 THEN n - 2 ELSE 0) |-> k]
        /\ (n \in {1, 2} => lambdas = << >>)

C5_Witness ==
    /\ pc = "done" /\ est = "real"
    /\ n = 4
    /\ positions = << 1, 2 >>
    /\ Len(lambdas) = 2

\* C6: in every state of the scan each recorded match length is >= 1, the
\* candidate length is >= 1, the running sum of contributions is >= 3, and
\* the final division does not divide by zero.
C6_ContributionsPositive ==
    est = "real" =>
        /\ \A k \in 1..Len(lambdas) : lambdas[k] >= 1
        /\ (pc \in {"while", "add"} => j >= 1)
        /\ sum_lambda >= 3
        /\ (pc = "done" => result.kind # "ZeroDivisionError")

C6_Witness ==
    /\ pc = "add" /\ est = "real"
    /\ lambdas # << >>
    /\ j = 1
    /\ sum_lambda > 3

\* C7: when _true_entropy returns, the sum of the interior match lengths
\* plus 3, which is the sum of contributions, is at least n.
C7_SumAtLeastLength ==
    (pc = "done" /\ est = "real") =>
        /\ SumSeq(lambdas) + 3 >= n
        /\ sum_lambda >= n

C7_Witness ==
    /\ pc = "done" /\ est = "real"
    /\ n = 4
    /\ sum_lambda = n + 1

\* C8: for a sequence of length 1 the real entropy is exactly 0 and the
\* random entropy is exactly 0, whatever the symbol.
C8_LengthOneIsZero ==
    (pc = "done" /\ Len(traj) = 1 /\ est \in {"real", "random"}) => IsZero(result)

C8_Witness ==
    /\ pc = "done" /\ est = "real"
    /\ Len(traj) = 1
    /\ sequence = << << 1100, 200 >> >>
    /\ IsZero(result)

\* C9: for a sequence of length 2, equal symbols or not, the sum of
\* contributions is exactly 3 and the real entropy is 2/3.
C9_LengthTwoIsTwoThirds ==
    (pc = "done" /\ est = "real" /\ Len(traj) = 2) =>
        /\ sum_lambda = 3
        /\ EqualsRat(result, 2, 3)

C9_Witness ==
    /\ pc = "done" /\ est = "real"
    /\ Len(traj) = 2
    /\ sequence[1] = sequence[2]
    /\ EqualsRat(result, 2, 3)

\* C10: for a sequence of length n >= 1 the real-entropy estimator raises
\* nothing, can always take its next step until it has returned, and returns
\* a finite value that is >= 0 (result holds nan only until the return).
C10_RealEntropyDefined ==
    (est = "real" /\ Len(traj) >= 1) =>
        /\ result.kind \in {"nan", "fin"}
        /\ pc # "done" => ENABLED TrueEntropyStep
        /\ pc = "done" => IsNonNegativeFinite(result)

C10_Witness ==
    /\ pc = "done" /\ est = "real"
    /\ Len(traj) = 3
    /\ IsNonNegativeFinite(result)
    /\ ~IsZero(result)

\* C11: whatever calls came before, an estimator called on a sequence it was
\* called on earlier (with the same normalize argument) returns the value
\* that the earlier call returned.
C11_SameArgumentSameResult ==
    (/\ pc = "done"
     /\ probe.set
     /\ probe.est = est
     /\ probe.normalize = normalize
     /\ probe.traj = traj) => result = probe.result

C11_Witness ==
    /\ pc = "done" /\ est = "real"
    /\ probe.set /\ probe.est = "real" /\ probe.traj = traj
    /\ Len(traj) = 3
    /\ lambdas = << 3 >>
    /\ result = probe.result

\* The scan of one of the sequences [A, B, A, B, A, B] has returned.
AlternatingDone == pc = "done" /\ est = "real" /\ traj \in AlternatingTrajectories

\* The scan of one of the sequences of six different locations has returned.
DistinctDone == pc = "done" /\ est = "real" /\ traj \in DistinctTrajectories

\* C12 as stated: for [A, B, A, B, A, B] the match length recorded at every
\* interior position 1..4 is at most 2.
C12_AlternatingAtMostTwo ==
    AlternatingDone => \A k \in 1..Len(lambdas) : lambdas[k] <= 2

\* C12 as amended: for [A, B, A, B, A, B] a match length is recorded at each
\* interior position 1..4 and it is at most 4.
C12_AlternatingAtMostFour ==
    AlternatingDone =>
        /\ positions = << 1, 2, 3, 4 >>
        /\ \A k \in 1..4 : lambdas[k] >= 1 /\ lambdas[k] <= 4

C12_Witness ==
    /\ AlternatingDone
    /\ sequence[1] = << 1100, 200 >> /\ sequence[2] = << -100, 200 >>
    /\ lambdas = << 1, 3, 4, 3 >>

DistinctLocations(t) ==
    Cardinality({ k \in 1..Len(t) :
        \A m \in 1..(k - 1) : t[m].lat # t[k].lat \/ t[m].lng # t[k].lng })

\* The number of records of t at location l.
RECURSIVE Visits(_, _)
Visits(t, l) ==
    IF t = << >> THEN 0
    ELSE (IF Head(t).lat = l[1] /\ Head(t).lng = l[2] THEN 1 ELSE 0) + Visits(Tail(t), l)

\* SUM_{k <= m} terms[k] of a float v.
RECURSIVE CoefSum(_, _)
CoefSum(v, m) == IF m < 1 THEN 0 ELSE Coef(v, m) + CoefSum(v, m - 1)

\* v is log2(m), for m >= 1.
IsLog2Of(v, m) ==
    /\ v.kind = "fin" /\ v.den = 1 /\ v.over = 2
    /\ DOMAIN v.terms = 1..m
    /\ \A k \in 1..m : v.terms[k] = IF k = m THEN 1 ELSE 0

\* v is the Shannon entropy (base 2) of the visit frequencies of t, len(t) >= 1:
\* with c(l) the visits of location l and n their sum,
\* -SUM (c(l)/n)*log2(c(l)/n) = (n*log2(n) - SUM c(l)*log2(c(l))) / n.
IsShannonEntropyOf(v, t) ==
    /\ v.kind = "fin"
    /\ v.den = Len(t)
    /\ DOMAIN v.terms = 1..Len(t)
    /\ \A k \in 1..Len(t) :
          v.terms[k] = (IF k = Len(t) THEN Len(t) ELSE 0)
                       - k * Cardinality({ l \in Locations : Visits(t, l) = k })

\* C15: for an individual with at least one record the random entropy is
\* log2(N), N the number of distinct (latitude, longitude) pairs among the
\* records, repeats counted once; log2(n) when all n records differ.
C15_RandomEntropyIsLog2Distinct ==
    (pc = "done" /\ est = "random" /\ Len(traj) >= 1) =>
        /\ IsLog2Of(result, DistinctLocations(traj))
        /\ (\A k1, k2 \in 1..Len(traj) : traj[k1] = traj[k2] => k1 = k2)
              => IsLog2Of(result, Len(traj))

C15_Witness ==
    /\ pc = "done" /\ est = "random"
    /\ Len(traj) = 4
    /\ traj[1] = traj[3]
    /\ traj[2].lat = traj[1].lat /\ traj[2].lng # traj[1].lng
    /\ IsLog2Of(result, 3)

\* All records of traj are at one location.
OneLocation == \A k \in 1..Len(traj) : traj[k] = traj[1]

\* C16: for n >= 1 records at one location the random entropy is 0 and the
\* uncorrelated entropy is 0, with and without normalization.
C16_OneLocationIsZero ==
    (pc = "done" /\ est \in {"random", "uncorrelated"} /\ Len(traj) >= 1 /\ OneLocation)
        => IsZero(result)

C16_Witness ==
    /\ pc = "done" /\ est = "uncorrelated" /\ normalize
    /\ Len(traj) = 3 /\ OneLocation
    /\ IsZero(result)

\* C17: without normalization the uncorrelated entropy of n >= 1 records is
\* the base-2 Shannon entropy of the frequencies count(location)/n, one
\* frequency per distinct location, and the counts sum to n (the
\* coefficients of the result cancel: n - SUM count = 0).
C17_UncorrelatedIsShannon ==
    (pc = "done" /\ est = "uncorrelated" /\ ~normalize /\ Len(traj) >= 1) =>
        /\ IsShannonEntropyOf(result, traj)
        /\ result.over = 2
        /\ CoefSum(result, Len(traj)) = 0
        /\ Cardinality({ l \in Locations : Visits(traj, l) > 0 }) = DistinctLocations(traj)

C17_Witness ==
    /\ pc = "done" /\ est = "uncorrelated" /\ ~normalize
    /\ Len(traj) = 4
    /\ Visits(traj, << 100, 200 >>) = 2
    /\ Visits(traj, << 100, 205 >>) = 1
    /\ Visits(traj, << 1100, 200 >>) = 1
    /\ result.terms = << -2, -2, 0, 4 >>

\* C18: with normalize the Shannon entropy is divided by log2(N) when the
\* number N of distinct locations is > 1 and the result is exactly 0 when
\* N <= 1, so the divisor is never log2(1); without normalize the entropy
\* is returned undivided.
C18_NormalizationGuarded ==
    (pc = "done" /\ est = "uncorrelated") =>
        /\ result.over # 1
        /\ (normalize /\ DistinctLocations(traj) > 1) =>
              /\ IsShannonEntropyOf(result, traj)
              /\ result.over = DistinctLocations(traj)
        /\ (normalize /\ DistinctLocations(traj) <= 1) =>
              IsZero(result)
        /\ (~normalize /\ Len(traj) >= 1) =>
              /\ IsShannonEntropyOf(result, traj)
              /\ result.over = 2

C18_Witness ==
    /\ pc = "done" /\ est = "uncorrelated" /\ normalize
    /\ Len(traj) = 4
    /\ DistinctLocations(traj) = 3
    /\ result.over = 3
    /\ ~IsZero(result)

\* v is the normalized uncorrelated entropy of the records t, len(t) >= 1: the
\* Shannon entropy divided by log2(N), N the distinct locations of t, and 0
\* when N <= 1.
IsNormalizedEntropyOf(v, t) ==
    IF DistinctLocations(t) > 1
    THEN IsShannonEntropyOf(v, t) /\ v.over = DistinctLocations(t)
    ELSE IsZero(v)

\* C19: uncorrelated_entropy(traj, normalize=True) returns for every
\* individual the entropy divided by log2(N_u), with a uid column and without
\* one, and the value column is named norm_uncorrelated_entropy exactly when
\* the values are normalized.
C19_NormalizedWithAndWithoutUid ==
    (out.returned /\ wrapper.fn = "uncorrelated_entropy") =>
        /\ (out.column = "norm_uncorrelated_entropy") <=> wrapper.normalize
        /\ wrapper.normalize =>
              \A g \in 1..Len(out.rows) :
                  Len(out.rows[g].records) >= 1 =>
                      IsNormalizedEntropyOf(out.rows[g].value, out.rows[g].records)

\* The records of the rows of uid u, in their order.
RECURSIVE OwnRecords(_, _)
OwnRecords(rows, u) ==
    IF rows = << >> THEN << >>
    ELSE (IF Head(rows).uid = u
          THEN << [lat |-> Head(rows).lat, lng |-> Head(rows).lng] >>
          ELSE << >>) \o OwnRecords(Tail(rows), u)

\* v is what the measure fn is specified to give for the records t, len(t) >= 1.
IsMeasureOf(v, fn, norm, t) ==
    CASE fn = "random_entropy" -> IsLog2Of(v, DistinctLocations(t))
      [] fn = "uncorrelated_entropy" ->
            IF norm THEN IsNormalizedEntropyOf(v, t)
            ELSE IsShannonEntropyOf(v, t) /\ v.over = 2
      [] fn = "real_entropy" ->
            /\ v.kind = "fin" /\ v.over = 2
            /\ v.den >= BoundaryContribution
            /\ DOMAIN v.terms = 1..Len(t)
            /\ \A k \in 1..Len(t) : v.terms[k] = IF k = Len(t) THEN Len(t) ELSE 0

\* C20: on a TrajDataFrame with a uid column each public measure returns
\* exactly one value per distinct uid, computed by the per-individual
\* estimator from the records of that uid only (in their order): individuals
\* with the same records get the same value, whatever the other rows are.
C20_OneValuePerUid ==
    (out.returned /\ table.uid_column) =>
        LET uids == { table.rows[k].uid : k \in 1..Len(table.rows) }
        IN  /\ Len(out.rows) = Cardinality(uids)
            /\ { out.rows[g].uid : g \in 1..Len(out.rows) } = uids
            /\ \A g \in 1..Len(out.rows) :
                  /\ out.rows[g].records = OwnRecords(table.rows, out.rows[g].uid)
                  /\ IsMeasureOf(out.rows[g].value, wrapper.fn, wrapper.normalize,
                                 OwnRecords(table.rows, out.rows[g].uid))
            /\ \A g, h \in 1..Len(out.rows) :
                  out.rows[g].records = out.rows[h].records
                      => out.rows[g].value = out.rows[h].value

C20_Witness ==
    /\ out.returned /\ table.uid_column
    /\ wrapper.fn = "real_entropy"
    /\ Len(table.rows) = 3
    /\ table.rows[1].uid = 2 /\ table.rows[2].uid = 1 /\ table.rows[3].uid = 2
    /\ table.rows[1].lat # table.rows[3].lat
    /\ Len(out.rows) = 2
    /\ out.rows[1].uid = 1 /\ Len(out.rows[1].records) = 1
    /\ out.rows[2].uid = 2 /\ Len(out.rows[2].records) = 2
    /\ IsZero(out.rows[1].value) /\ ~IsZero(out.rows[2].value)

\* Rows k of t and u are at the same (latitude, longitude), for every k.
SameLocations(t, u) ==
    /\ Len(t) = Len(u)
    /\ \A k \in 1..Len(t) : t[k].lat = u[k].lat /\ t[k].lng = u[k].lng

Individuals == IF table.uid_column THEN Uids ELSE { 0 }

\* The rows of individual u, in the order of the TrajDataFrame.
RECURSIVE OwnRows(_, _)
OwnRows(rows, u) ==
    IF rows = << >> THEN << >>
    ELSE (IF Head(rows).uid = u THEN << Head(rows) >> ELSE << >>) \o OwnRows(Tail(rows), u)

\* How many times a row at a is followed at once by a row at b.
Transitions(sorted, a, b) ==
    Cardinality({ k \in 1..(Len(sorted) - 1) :
        /\ sorted[k].lat = a[1] /\ sorted[k].lng = a[2]
        /\ sorted[k + 1].lat = b[1] /\ sorted[k + 1].lng = b[2] })

\* v is the sum of the distances between the consecutive rows of sorted.
IsSumOfJumps(v, sorted) ==
    /\ v.kind = "fin"
    /\ \A a, b \in CallLocations :
          a # b =>
              LET times == Transitions(sorted, a, b) + Transitions(sorted, b, a)
              IN  IF times = 0 THEN {a, b} \notin DOMAIN v.km
                  ELSE {a, b} \in DOMAIN v.km /\ v.km[{a, b}] = times

\* C22: distance_straight_line reports NaN for an individual with just one
\* recorded point, and for an individual with n >= 2 points the sum of the
\* n-1 distances between time-consecutive points.
C22_DistanceOfConsecutivePoints ==
    (out.returned /\ wrapper.fn = "distance_straight_line") =>
        \A g \in 1..Len(out.rows) :
            LET own == OwnRows(table.rows, out.rows[g].uid)
            IN  /\ Len(own) = 1 => out.rows[g].value.kind = "nan"
                /\ Len(own) >= 2 =>
                      \E sorted \in SortedByDatetime(own) :
                          IsSumOfJumps(out.rows[g].value, sorted)

\* C23: individual_mobility_network(traj, self_loops=True) has a self-loop
\* edge for every pair of time-consecutive visits to the same location, with
\* self_loops=False it has none, with a uid column and without; the n_trips
\* of an edge is the number of time-consecutive transitions from its origin
\* to its destination.
C23_SelfLoopsAsAsked ==
    (out.returned /\ wrapper.fn = "individual_mobility_network") =>
        \A u \in Individuals :
            LET own == OwnRows(table.rows, u)
                edges == { g \in 1..Len(out.rows) : out.rows[g].uid = u }
            IN  \E sorted \in SortedByDatetime(own) :
                    /\ \A g \in edges :
                          out.rows[g].n_trips =
                              Transitions(sorted, out.rows[g].origin, out.rows[g].dest)
                    /\ wrapper.self_loops =>
                          \A l \in CallLocations :
                              Transitions(sorted, l, l) > 0 =>
                                  \E g \in edges : out.rows[g].origin = l /\ out.rows[g].dest = l
                    /\ ~wrapper.self_loops =>
                          \A g \in edges : out.rows[g].origin # out.rows[g].dest

\* C24: location_frequency(traj, normalize=False) gives for every location
\* of an individual the count of its visits, and with normalize=True the
\* count divided by the individual's number of visits, with no uid column,
\* with one user and with several.
C24_FrequencyNormalizedAsAsked ==
    (out.returned /\ wrapper.fn = "location_frequency") =>
        \A u \in Individuals, l \in CallLocations :
            LET own == OwnRows(table.rows, u)
                found == { g \in 1..Len(out.rows) :
                             /\ out.rows[g].uid \in { u, 0 }
                             /\ out.rows[g].lat = l[1] /\ out.rows[g].lng = l[2] }
            IN  Visits(own, l) > 0 =>
                    /\ Cardinality(found) = 1
                    /\ \A g \in found :
                          IF wrapper.normalize
                          THEN out.rows[g].value.num * Len(own)
                                   = Visits(own, l) * out.rows[g].value.den
                          ELSE out.rows[g].value.num
                                   = Visits(own, l) * out.rows[g].value.den

\* The candidate of length m at position pos occurs in the prefix seq[0:pos].
Found(seq, pos, m) == OccursIn(Slice(seq, 0, pos), Slice(seq, pos, pos + m))

\* C25: at an interior position i the scan records j the first time the
\* candidate sequence[i:i+j] is not found in sequence[0:i]; if i+j reaches n
\* right after an increment it records n-i+1 without testing the candidate
\* of length n-i.  The recorded value is never n-i (at i = n-2: 1 or 3).
C25_StopsAtFirstUnseenOrEnd ==
    est = "real" =>
        \A k \in 1..Len(lambdas) :
            LET pos == positions[k]
                len == lambdas[k]
            IN  /\ len # n - pos
                /\ (pos = n - 2 => len \in {1, 3})
                /\ \/ /\ len <= n - pos - 1
                      /\ ~Found(sequence, pos, len)
                      /\ \A m \in 1..(len - 1) : Found(sequence, pos, m)
                   \/ /\ len = n - pos + 1
                      /\ \A m \in 1..(n - pos - 1) : Found(sequence, pos, m)

\* min(a, b)
Smaller(a, b) == IF a <= b THEN a ELSE b

\* C26: every recorded match length L(i) satisfies
\* 1 <= L(i) <= min(i+2, n-i+1); a candidate longer than the prefix is never
\* found in it (only occurrences inside sequence[0:i] count), and the slice
\* sequence[i:i+j] never runs past the end of the sequence when it is tested.
C26_MatchLengthBounds ==
    est = "real" =>
        /\ \A k \in 1..Len(lambdas) :
              /\ 1 <= lambdas[k]
              /\ lambdas[k] <= Smaller(positions[k] + 2, n - positions[k] + 1)
        /\ pc = "while" =>
              /\ i + j <= n
              /\ Len(Slice(sequence, i, i + j)) = j
              /\ str_seq = _stringify(Slice(sequence, 0, i))
              /\ str_sub_seq = _stringify(Slice(sequence, i, i + j))
              /\ (j > i => ~Contains(str_seq, str_sub_seq))
        /\ pc = "add" => j <= Smaller(i + 2, n - i + 1)

C26_Witness ==
    /\ est = "real" /\ pc = "done"
    /\ n = 4
    /\ lambdas = << 2, 3 >>
    /\ positions = << 1, 2 >>

\* The scan of _true_entropy is under way.
Scanning == est = "real" /\ pc \in { "for", "while", "add" }

\* j starts at 1 at every position and only ever grows by 1: the increments
\* of j made so far at position i.
Increments == j - 1

\* C27 as stated: the inner loop at position i performs at most n-i-1
\* increments of j before it exits, and the outer loop visits each interior
\* position once.
C27_AtMostNMinusIMinusOneIncrements ==
    /\ (est = "real" /\ pc = "add") => Increments <= n - i - 1
    /\ (est = "real" /\ pc = "done") =>
          positions = [k \in 1..(IF n >= 2 THEN n - 2 ELSE 0) |-> k]

\* A bound on the steps the scan has left: n+3 for every interior position
\* that is still to come, and within a position the candidates left to test.
StepsLeft ==
    LET later == IF i <= n - 2 THEN n - 2 - i ELSE 0 - 1
    IN  CASE ~Scanning -> 0
          [] pc = "for" -> (later + 1) * (n + 3) + 1
          [] pc = "while" -> later * (n + 3) + 3 + (n - i - j)
          [] pc = "add" -> later * (n + 3) + 2

\* C27: the scan terminates for every finite sequence: every step of it
\* lowers the bound StepsLeft, which is never negative; the inner loop at
\* position i makes at most n-i-1 passes of its body and so at most n-i
\* increments of j (the end-of-sequence break increments j once more in its
\* last pass); the outer loop visits each interior position once.
C27_ScanTerminates ==
    /\ [](Scanning => StepsLeft > 0)
    /\ [][Scanning => StepsLeft' < StepsLeft]_vars
    /\ []((est = "real" /\ pc = "while") => Increments <= n - i - 2)
    /\ []((est = "real" /\ pc = "add") => Increments <= n - i)
    /\ []((est = "real" /\ pc = "done") =>
            positions = [k \in 1..(IF n >= 2 THEN n - 2 ELSE 0) |-> k])

C27_Witness ==
    /\ est = "real" /\ pc = "add"
    /\ n = 4 /\ i = 2
    /\ Increments = n - i
    /\ positions = << 1 >>

\* The symbols of the scanned sequence are pairwise distinct.
PairwiseDistinct ==
    \A k, m \in 1..Len(sequence) : k # m => sequence[k] # sequence[m]

\* C28: among the sequences of a length n >= 2 the sum of contributions is
\* smallest, n+1, for a sequence of pairwise-distinct symbols (every interior
\* match length is 1); no sequence of length n has a real entropy above
\* n*log2(n)/(n+1).
C28_DistinctIsSmallestSum ==
    (pc = "done" /\ est = "real" /\ n >= 2) =>
        /\ sum_lambda >= n + 1
        /\ PairwiseDistinct =>
              /\ sum_lambda = n + 1
              /\ \A k \in 1..Len(lambdas) : lambdas[k] = 1
        /\ result.kind = "fin"
        /\ result.den >= n + 1
        /\ DOMAIN result.terms = 1..n
        /\ \A k \in 1..n : result.terms[k] = IF k = n THEN n ELSE 0


=============================================================================
